---- MODULE Spec2Model ----
(***************************************************************************)
(* Model of tg_bot.py: the per-chat dialogue state machine driven by       *)
(* handle_users_reply, the Strapi cart / cart-item / client calls it makes *)
(* and the cart view that show_cart renders.                               *)
(*                                                                         *)
(* Conventions.                                                            *)
(*   - A Python str is a sequence of one-character strings, so that strip, *)
(*     "in", startswith, split, int() and f-string formatting are computed. *)
(*   - A Python value that may be None is a sequence of length <= 1:       *)
(*     <<>> is None, <<x>> is x.                                           *)
(*   - Every client function takes the set F of calls that fail during the *)
(*     event (HTTP status >= 400 or a timeout; a Telegram error) and the   *)
(*     world w, and returns [exc, val, w]: exc is "an exception             *)
(*     propagates", val the returned value, w the world afterwards.        *)
(*   - Quantities are whole kilograms.                                     *)
(***************************************************************************)
EXTENDS Integers, Sequences, FiniteSets, TLC

(***************************************************************************)
(* Bounds of the model.                                                    *)
(***************************************************************************)
NumChats == 1
MaxItemId == 2
MaxQty == 4
MaxFaults == 1
MaxAdd == 2
MaxRaw == 2
NumProcs == 2
MaxCarts == 2

\* The chats whose events are handled, and a chat of another user whose
\* records the backend may hold.
Chats == 1..NumChats

OtherChat == NumChats + 1

(***************************************************************************)
(* Program constants.                                                      *)
(***************************************************************************)
STATE_START == "START"
STATE_HANDLE_MENU == "HANDLE_MENU"
STATE_HANDLE_DESCRIPTION == "HANDLE_DESCRIPTION"
STATE_HANDLE_CART == "HANDLE_CART"
STATE_WAITING_EMAIL == "WAITING_EMAIL"

States ==
    {STATE_START, STATE_HANDLE_MENU, STATE_HANDLE_DESCRIPTION,
     STATE_HANDLE_CART, STATE_WAITING_EMAIL}

\* redis get of a key that was never set: None (falsy, like "").
NoState == ""

(***************************************************************************)
(* Strings.                                                                *)
(***************************************************************************)
Digits == <<"0", "1", "2", "3", "4", "5", "6", "7", "8", "9">>

IsDigit(c) == \E i \in 1..10 : Digits[i] = c

DigitVal(c) == (CHOOSE i \in 1..10 : Digits[i] = c) - 1

\* str(n) for a natural number n.
RECURSIVE IntToStr(_)
IntToStr(n) ==
    IF n < 10 THEN <<Digits[n + 1]>>
    ELSE IntToStr(n \div 10) \o <<Digits[(n % 10) + 1]>>

\* int(s): [ok |-> FALSE] is ValueError. Decimal digits only (the signs,
\* blanks and underscores int() also accepts occur in no payload).
RECURSIVE DigitsVal(_)
DigitsVal(s) ==
    IF Len(s) = 0 THEN 0
    ELSE 10 * DigitsVal(SubSeq(s, 1, Len(s) - 1)) + DigitVal(s[Len(s)])

ParseInt(s) ==
    IF Len(s) > 0 /\ \A i \in 1..Len(s) : IsDigit(s[i])
    THEN [ok |-> TRUE, val |-> DigitsVal(s)]
    ELSE [ok |-> FALSE, val |-> 0]

\* c in s
Contains(s, c) == \E i \in 1..Len(s) : s[i] = c

\* s.startswith(p)
StartsWith(s, p) == Len(s) >= Len(p) /\ SubSeq(s, 1, Len(p)) = p

\* s.strip()
RECURSIVE LStrip(_)
LStrip(s) == IF Len(s) > 0 /\ s[1] = " " THEN LStrip(Tail(s)) ELSE s

RECURSIVE RStrip(_)
RStrip(s) ==
    IF Len(s) > 0 /\ s[Len(s)] = " " THEN RStrip(SubSeq(s, 1, Len(s) - 1)) ELSE s

Strip(s) == RStrip(LStrip(s))

\* Positions of "_" in s.
Underscores(s) == {i \in 1..Len(s) : s[i] = "_"}

Max(S) == CHOOSE x \in S : \A y \in S : y <= x

Min(S) == CHOOSE x \in S : \A y \in S : x <= y

\* s.split("_", 1)[1]: [ok |-> FALSE] is IndexError (no "_" in s).
SplitFirst(s) ==
    IF Underscores(s) = {} THEN [ok |-> FALSE, val |-> <<>>]
    ELSE [ok |-> TRUE, val |-> SubSeq(s, Min(Underscores(s)) + 1, Len(s))]

\* s.rsplit("_", 1)[1]
RSplitLast(s) ==
    IF Underscores(s) = {} THEN [ok |-> FALSE, val |-> <<>>]
    ELSE [ok |-> TRUE, val |-> SubSeq(s, Max(Underscores(s)) + 1, Len(s))]

\* The callback payloads and the command.
CmdStart == <<"/", "s", "t", "a", "r", "t">>
PNoProducts == <<"n", "o", "_", "p", "r", "o", "d", "u", "c", "t", "s">>
PShowCart == <<"s", "h", "o", "w", "_", "c", "a", "r", "t">>
PBackToMenu == <<"b", "a", "c", "k", "_", "t", "o", "_", "m", "e", "n", "u">>
PPay == <<"p", "a", "y">>
AddPrefix == <<"a", "d", "d", "_">>
RemovePrefix == <<"r", "e", "m", "o", "v", "e", "_", "i", "t", "e", "m", "_">>

\* f"add_{product['id']}", str(pid), f"remove_item_{item_id}"
AddPayload(pid) == AddPrefix \o IntToStr(pid)

ProductPayload(pid) == IntToStr(pid)

RemovePayload(ident) == RemovePrefix \o ident

(***************************************************************************)
(* The content backend: the catalog (read only) and the world the          *)
(* handlers change.                                                        *)
(***************************************************************************)
\* The products of the backend. Product 2 has no qty_kg and no picture,
\* product 3 a qty_kg of 0.
Catalog ==
    << [id |-> 1, price |-> 2, qty_kg |-> <<2>>, has_image |-> TRUE],
       [id |-> 2, price |-> 3, qty_kg |-> <<>>, has_image |-> FALSE],
       [id |-> 3, price |-> 1, qty_kg |-> <<0>>, has_image |-> FALSE] >>

\* An id no product has (the button of a product since removed).
GoneProduct == Len(Catalog) + 1

\* The backend calls that can fail: the request times out or is answered
\* with a status >= 400 other than a 404 the code handles.
BackendCalls ==
    {"fetch_products", "get_product", "get_cart", "create_cart", "find_item",
     "create_item", "update_item", "delete_item", "list_items",
     "find_client", "create_client", "update_client"}

\* Telegram calls: query.answer, reply_text / send_message, edit_text, and
\* the download and send_photo of a product's picture.
TransportCalls == {"answer", "send", "edit", "photo"}

\* A DELETE the backend answers with 404 although the record exists (a
\* configuration in which it does not let the record be deleted).
Delete404 == "delete_item_404"

\* The documentId Strapi gives the record with numeric id n.
DocId(n) == <<"d">> \o IntToStr(n)

\* Mutant: only an absent number is replaced by d.
NumOr_keeps_zero(x, d) == IF x = <<>> THEN d ELSE x[1]

\* x or d, for an optional number x.
NumOr(x, d) == IF x = <<>> \/ x[1] = 0 THEN d ELSE x[1]

Ret(w, val) == [exc |-> FALSE, val |-> val, w |-> w]

Raise(w) == [exc |-> TRUE, val |-> <<>>, w |-> w]

\* The request is sent: recorded in the event's call log.
Call(w, name) == [w EXCEPT !.log = Append(@, name)]

\* carts[0] if carts else None
First(s) == IF Len(s) = 0 THEN <<>> ELSE <<s[1]>>

fetch_products(F, w) ==
    LET w1 == Call(w, "fetch_products")
    IN  IF "fetch_products" \in F THEN Ret(w1, <<>>) ELSE Ret(w1, Catalog)

get_product_by_id(F, w, product_id) ==
    LET w1 == Call(w, "get_product")
        product_records == SelectSeq(Catalog, LAMBDA p : p.id = product_id)
    IN  IF "get_product" \in F THEN Ret(w1, <<>>)
        ELSE Ret(w1, First(product_records))

\* The callback_data of the keyboard's buttons, row by row.
build_products_keyboard(F, w) ==
    LET r == fetch_products(F, w)
        products == r.val
        keyboard == [i \in 1..Len(products) |-> ProductPayload(products[i].id)]
    IN  IF Len(products) = 0 THEN Ret(r.w, <<PNoProducts, PShowCart>>)
        ELSE Ret(r.w, keyboard \o <<PShowCart>>)

get_cart_by_tg(F, w, tg_id) ==
    LET w1 == Call(w, "get_cart")
        carts == SelectSeq(w.carts, LAMBDA c : c.tg_id = tg_id)
    IN  IF "get_cart" \in F THEN Raise(w1) ELSE Ret(w1, First(carts))

create_cart_for_tg(F, w, tg_id) ==
    LET w1 == Call(w, "create_cart")
        cart == [id |-> Len(w.carts) + 1, tg_id |-> tg_id]
    IN  IF "create_cart" \in F THEN Raise(w1)
        ELSE Ret([w1 EXCEPT !.carts = Append(@, cart)], <<cart>>)

\* Mutant: creates a cart without looking one up.
ensure_cart_exists_always_creates(F, w, tg_id) == create_cart_for_tg(F, w, tg_id)

ensure_cart_exists(F, w, tg_id) ==
    LET r == get_cart_by_tg(F, w, tg_id)
    IN  IF r.exc THEN r
        ELSE IF r.val # <<>> THEN r
        ELSE create_cart_for_tg(F, r.w, tg_id)

\* Mutant: the lookup skips the records hidden with quantity 0.
find_cart_item_skips_hidden(F, w, cart_id, product_id) ==
    LET w1 == Call(w, "find_item")
        cart_items ==
            SelectSeq(w.items, LAMBDA it : /\ it.cart = cart_id
                                           /\ it.product = product_id
                                           /\ NumOr(it.qty_kg, 0) > 0)
    IN  IF "find_item" \in F THEN Raise(w1) ELSE Ret(w1, First(cart_items))

find_cart_item(F, w, cart_id, product_id) ==
    LET w1 == Call(w, "find_item")
        cart_items ==
            SelectSeq(w.items, LAMBDA it : it.cart = cart_id /\ it.product = product_id)
    IN  IF "find_item" \in F THEN Raise(w1) ELSE Ret(w1, First(cart_items))

\* cart_item.get("documentId") or cart_item.get("id"), as it is formatted
\* into a URL or a payload.
get_cart_item_identifier(cart_item) ==
    IF cart_item.documentId # <<>> THEN cart_item.documentId
    ELSE IF cart_item.id # 0 THEN IntToStr(cart_item.id)
    ELSE <<>>

create_cart_item(F, w, cart_id, product_id, qty_kg) ==
    LET w1 == Call(w, "create_item")
        item == [id |-> w.nextItem, documentId |-> DocId(w.nextItem),
                 cart |-> cart_id, product |-> product_id, qty_kg |-> <<qty_kg>>]
    IN  IF "create_item" \in F THEN Raise(w1)
        ELSE Ret([w1 EXCEPT !.items = Append(@, item), !.nextItem = @ + 1], <<item>>)

\* The positions of the records the route /api/cart-items/{item_id} names.
Routed(w, item_id) == {i \in 1..Len(w.items) : w.items[i].documentId = item_id}

\* Mutant: a failing update has written the quantity before it fails.
update_cart_item_qty_writes_then_fails(F, w, item_id, qty_kg) ==
    LET w1 == Call(w, "update_item")
        at == Routed(w, item_id)
        i == CHOOSE j \in at : TRUE
    IN  IF at = {} THEN (IF "update_item" \in F THEN Raise(w1) ELSE Ret(w1, <<>>))
        ELSE IF "update_item" \in F
        THEN Raise([w1 EXCEPT !.items[i].qty_kg = <<qty_kg>>])
        ELSE Ret([w1 EXCEPT !.items[i].qty_kg = <<qty_kg>>],
                 <<[w.items[i] EXCEPT !.qty_kg = <<qty_kg>>]>>)

update_cart_item_qty(F, w, item_id, qty_kg) ==
    LET w1 == Call(w, "update_item")
        at == Routed(w, item_id)
        i == CHOOSE j \in at : TRUE
    IN  IF "update_item" \in F THEN Raise(w1)
        ELSE IF at = {} THEN Ret(w1, <<>>)
        ELSE Ret([w1 EXCEPT !.items[i].qty_kg = <<qty_kg>>],
                 <<[w.items[i] EXCEPT !.qty_kg = <<qty_kg>>]>>)

\* Mutant: creates an item without looking one up.
add_or_increment_item_always_creates(F, w, cart_id, product_id, qty_to_add) ==
    create_cart_item(F, w, cart_id, product_id, qty_to_add)

\* Mutant: the fallback creates the item with qty_to_add alone.
IncrementOrCreate_fallback_drops_current(F, w, cart_id, product_id, qty_to_add, found) ==
    LET existing == found[1]
        item_id == get_cart_item_identifier(existing)
        new_qty == NumOr(existing.qty_kg, 0) + qty_to_add
        u == update_cart_item_qty(F, w, item_id, new_qty)
    IN  IF found = <<>>
        THEN create_cart_item(F, w, cart_id, product_id, qty_to_add)
        ELSE IF u.exc THEN u
        ELSE IF u.val = <<>>
        THEN create_cart_item(F, u.w, cart_id, product_id, qty_to_add)
        ELSE u

\* add_or_increment_item from the answer of find_cart_item on: found is
\* what the lookup returned, w the backend when the next request is sent.
IncrementOrCreate(F, w, cart_id, product_id, qty_to_add, found) ==
    LET existing == found[1]
        item_id == get_cart_item_identifier(existing)
        current_qty == NumOr(existing.qty_kg, 0)
        new_qty == current_qty + qty_to_add
        u == update_cart_item_qty(F, w, item_id, new_qty)
    IN  IF found = <<>>
        THEN create_cart_item(F, w, cart_id, product_id, qty_to_add)
        ELSE IF u.exc THEN u
        ELSE IF u.val = <<>>
        THEN create_cart_item(F, u.w, cart_id, product_id, new_qty)
        ELSE u

add_or_increment_item(F, w, cart_id, product_id, qty_to_add) ==
    LET r == find_cart_item(F, w, cart_id, product_id)
    IN  IF r.exc THEN r
        ELSE IncrementOrCreate(F, r.w, cart_id, product_id, qty_to_add, r.val)

delete_cart_item(F, w, item_id) ==
    LET w1 == Call(w, "delete_item")
        at == Routed(w, item_id)
        keep == SelectSeq(w.items, LAMBDA it : it.documentId # item_id)
    IN  IF "delete_item" \in F THEN Raise(w1)
        ELSE IF at = {} \/ Delete404 \in F THEN Ret(w1, FALSE)
        ELSE Ret([w1 EXCEPT !.items = keep], TRUE)

hide_cart_item(F, w, item_id) ==
    LET u == update_cart_item_qty(F, w, item_id, 0)
    IN  IF u.exc THEN u ELSE Ret(u.w, u.val # <<>>)

\* populate=product: each record with its product, None when it has none.
Populate(it) ==
    [id |-> it.id, documentId |-> it.documentId, qty_kg |-> it.qty_kg,
     product |-> First(SelectSeq(Catalog, LAMBDA p : p.id = it.product))]

get_cart_items_with_products(F, w, cart_id) ==
    LET w1 == Call(w, "list_items")
        mine == SelectSeq(w.items, LAMBDA it : it.cart = cart_id)
    IN  IF "list_items" \in F THEN Raise(w1)
        ELSE Ret(w1, [i \in 1..Len(mine) |-> Populate(mine[i])])

find_client_by_tg(F, w, tg_id) ==
    LET w1 == Call(w, "find_client")
        clients == SelectSeq(w.clients, LAMBDA c : c.tg_id = tg_id)
    IN  IF "find_client" \in F THEN Raise(w1) ELSE Ret(w1, First(clients))

create_client(F, w, tg_id, email) ==
    LET w1 == Call(w, "create_client")
        client == [id |-> Len(w.clients) + 1, tg_id |-> tg_id, email |-> email]
    IN  IF "create_client" \in F THEN Raise(w1)
        ELSE Ret([w1 EXCEPT !.clients = Append(@, client)], <<client>>)

update_client(F, w, client_id, email) ==
    LET w1 == Call(w, "update_client")
        at == {i \in 1..Len(w.clients) : w.clients[i].id = client_id}
        i == CHOOSE j \in at : TRUE
    IN  IF "update_client" \in F \/ at = {} THEN Raise(w1)
        ELSE Ret([w1 EXCEPT !.clients[i].email = email],
                 <<[w.clients[i] EXCEPT !.email = email]>>)

\* Mutant: creates a client without looking one up.
create_or_update_client_always_creates(F, w, tg_id, email) ==
    create_client(F, w, tg_id, email)

create_or_update_client(F, w, tg_id, email) ==
    LET r == find_client_by_tg(F, w, tg_id)
    IN  IF r.exc THEN r
        ELSE IF r.val # <<>> /\ r.val[1].id # 0
        THEN update_client(F, r.w, r.val[1].id, email)
        ELSE create_client(F, r.w, tg_id, email)

(***************************************************************************)
(* The chat transport.                                                     *)
(***************************************************************************)
\* query.answer()
Answer(F, w) == IF "answer" \in F THEN Raise(w) ELSE Ret(w, <<>>)

\* reply_text / send_message: the message, with its keyboard's payloads.
Send(F, w, text, kb) ==
    IF "send" \in F THEN Raise(w)
    ELSE Ret([w EXCEPT !.msgs = Append(@, [text |-> text, kb |-> kb])], <<>>)

\* Send the message, then return next_state.
SendThen(F, w, text, kb, next_state) ==
    LET s == Send(F, w, text, kb)
    IN  IF s.exc THEN s ELSE Ret(s.w, next_state)

(***************************************************************************)
(* The cart view.                                                          *)
(***************************************************************************)
\* Mutant: an item of quantity 0 is kept.
KeptItems_keeps_zero(cart_items_raw) ==
    SelectSeq(cart_items_raw, LAMBDA it : NumOr(it.qty_kg, 0) >= 0)

\* The records show_cart keeps: float(qty_kg or 0) > 0.
KeptItems(cart_items_raw) ==
    SelectSeq(cart_items_raw, LAMBDA it : NumOr(it.qty_kg, 0) > 0)

\* One line of the view, and its remove button.
CartLine(cart_item) ==
    LET qty == NumOr(cart_item.qty_kg, 0)
        price == IF cart_item.product = <<>> THEN 0 ELSE cart_item.product[1].price
    IN  [item_id |-> get_cart_item_identifier(cart_item), qty |-> qty,
         price |-> price, subtotal |-> qty * price]

RECURSIVE SumSubtotals(_)
SumSubtotals(lines) ==
    IF Len(lines) = 0 THEN 0
    ELSE lines[1].subtotal + SumSubtotals(Tail(lines))

\* What show_cart renders for the records the backend returned.
CartView(cart_items_raw) ==
    LET cart_items == KeptItems(cart_items_raw)
        with_id == SelectSeq(cart_items, LAMBDA it : get_cart_item_identifier(it) # <<>>)
        lines == [i \in 1..Len(with_id) |-> CartLine(with_id[i])]
        buttons == [i \in 1..Len(lines) |-> RemovePayload(lines[i].item_id)]
    IN  IF Len(cart_items) = 0
        THEN [empty |-> TRUE, lines |-> <<>>, total |-> 0, kb |-> <<PBackToMenu>>]
        ELSE [empty |-> FALSE, lines |-> lines, total |-> SumSubtotals(lines),
              kb |-> buttons \o <<PPay, PBackToMenu>>]

EmptyView == [empty |-> TRUE, lines |-> <<>>, total |-> 0, kb |-> <<PBackToMenu>>]

\* send_cart_message: edit the cart message in place when asked to and
\* possible, else send a new one.
send_cart_message(F, w, ev, view, replace_message) ==
    LET text == IF view.empty THEN "cart_empty" ELSE "cart"
        shown == [w EXCEPT !.view = <<view>>]
        edited == [shown EXCEPT !.msgs = Append(@, [text |-> text, kb |-> view.kb])]
    IN  IF ~ev.is_message /\ replace_message /\ "edit" \notin F
        THEN Ret(edited, <<>>)
        ELSE Send(F, shown, text, view.kb)

show_cart(F, w, ev, replace_message) ==
    LET a == IF ev.is_message THEN Ret(w, <<>>) ELSE Answer(F, w)
        c == get_cart_by_tg(F, a.w, IntToStr(ev.chat_id))
        l == get_cart_items_with_products(F, c.w, c.val[1].id)
        m == send_cart_message(F, l.w, ev, CartView(l.val), replace_message)
        e == send_cart_message(F, c.w, ev, EmptyView, replace_message)
    IN  IF a.exc THEN a
        ELSE IF c.exc THEN c
        ELSE IF c.val = <<>>
        THEN (IF e.exc THEN e ELSE Ret(e.w, STATE_HANDLE_CART))
        ELSE IF l.exc THEN l
        ELSE IF m.exc THEN m
        ELSE Ret(m.w, STATE_HANDLE_CART)

(***************************************************************************)
(* The transition handlers. An event is [chat_id, is_message, data]: a     *)
(* text message with its text, or a button press with its callback_data.   *)
(***************************************************************************)
\* Mutant: without a catalog the chat is kept in START.
start_needs_catalog(F, w, ev) ==
    LET k == build_products_keyboard(F, w)
    IN  SendThen(F, k.w, "menu", k.val,
                 IF k.val[1] = PNoProducts THEN STATE_START ELSE STATE_HANDLE_MENU)

start(F, w, ev) ==
    LET k == build_products_keyboard(F, w)
    IN  SendThen(F, k.w, "menu", k.val, STATE_HANDLE_MENU)

CardKeyboard(product) == <<AddPayload(product.id), PShowCart, PBackToMenu>>

\* The product card: a photo when the product has a picture and it can be
\* fetched and sent, else a text message.
SendCard(F, w, product) ==
    LET card == [text |-> "card", kb |-> CardKeyboard(product)]
    IN  IF product.has_image /\ "photo" \notin F
        THEN Ret([w EXCEPT !.msgs = Append(@, card)], <<>>)
        ELSE Send(F, w, card.text, card.kb)

handle_menu(F, w, ev) ==
    LET a == Answer(F, w)
        n == ParseInt(ev.data)
        p == get_product_by_id(F, a.w, n.val)
        s == SendCard(F, p.w, p.val[1])
    IN  IF ev.is_message
        THEN SendThen(F, w, "press_start", <<>>, STATE_START)
        ELSE IF a.exc THEN a
        ELSE IF ev.data = PNoProducts
        THEN SendThen(F, a.w, "no_products_yet", <<>>, STATE_START)
        ELSE IF ev.data = PShowCart THEN show_cart(F, a.w, ev, FALSE)
        ELSE IF ~n.ok
        THEN SendThen(F, a.w, "unknown_product", <<>>, STATE_HANDLE_MENU)
        ELSE IF p.val = <<>>
        THEN SendThen(F, p.w, "product_unavailable", <<>>, STATE_HANDLE_MENU)
        ELSE IF s.exc THEN s
        ELSE Ret(s.w, STATE_HANDLE_DESCRIPTION)

\* Mutant: the add branch adds 1 kg whatever the product's qty_kg.
AddToCart_adds_one(F, w, ev, product_id, qty_val) ==
    LET c == ensure_cart_exists(F, w, IntToStr(ev.chat_id))
        i == add_or_increment_item(F, c.w, c.val[1].id, product_id, 1)
    IN  IF c.exc THEN c
        ELSE IF i.exc THEN i
        ELSE Send(F, i.w, "added", <<>>)

\* The try block of the add branch: ensure the cart, add, confirm.
AddToCart(F, w, ev, product_id, qty_val) ==
    LET c == ensure_cart_exists(F, w, IntToStr(ev.chat_id))
        i == add_or_increment_item(F, c.w, c.val[1].id, product_id, qty_val)
    IN  IF c.exc THEN c
        ELSE IF i.exc THEN i
        ELSE Send(F, i.w, "added", <<>>)

handle_description(F, w, ev) ==
    LET a == Answer(F, w)
        k == build_products_keyboard(F, a.w)
        n == ParseInt(SplitFirst(ev.data).val)
        p == get_product_by_id(F, a.w, n.val)
        qty_val == NumOr(p.val[1].qty_kg, 1)
        t == AddToCart(F, p.w, ev, n.val, qty_val)
    IN  IF ev.is_message
        THEN SendThen(F, w, "use_card_buttons", <<>>, STATE_HANDLE_DESCRIPTION)
        ELSE IF a.exc THEN a
        ELSE IF ev.data = PBackToMenu
        THEN SendThen(F, k.w, "menu", k.val, STATE_HANDLE_MENU)
        ELSE IF ev.data = PShowCart THEN show_cart(F, a.w, ev, FALSE)
        ELSE IF StartsWith(ev.data, AddPrefix)
        THEN IF ~n.ok
             THEN SendThen(F, a.w, "unknown_add", <<>>, STATE_HANDLE_DESCRIPTION)
             ELSE IF p.val = <<>>
             THEN SendThen(F, p.w, "product_gone", <<>>, STATE_HANDLE_DESCRIPTION)
             ELSE IF t.exc
             THEN SendThen(F, t.w, "add_failed", <<>>, STATE_HANDLE_DESCRIPTION)
             ELSE Ret(t.w, STATE_HANDLE_DESCRIPTION)
        ELSE Ret(a.w, STATE_HANDLE_DESCRIPTION)

\* The try block of the remove branch: hard delete, soft-hide, report.
RemoveFromCart(F, w, item_id) ==
    LET d == delete_cart_item(F, w, item_id)
        h == hide_cart_item(F, d.w, item_id)
    IN  IF d.exc THEN d
        ELSE IF h.exc THEN h
        ELSE IF d.val \/ h.val THEN Send(F, h.w, "removed", <<>>)
        ELSE Send(F, h.w, "already_removed", <<>>)

handle_cart(F, w, ev) ==
    LET a == Answer(F, w)
        k == build_products_keyboard(F, a.w)
        item_id == RSplitLast(ev.data).val
        t == RemoveFromCart(F, a.w, item_id)
        x == Send(F, t.w, "remove_failed", <<>>)
    IN  IF ev.is_message
        THEN SendThen(F, w, "use_cart_buttons", <<>>, STATE_HANDLE_CART)
        ELSE IF a.exc THEN a
        ELSE IF ev.data = PBackToMenu
        THEN SendThen(F, k.w, "menu", k.val, STATE_HANDLE_MENU)
        ELSE IF ev.data = PPay
        THEN SendThen(F, a.w, "ask_email", <<>>, STATE_WAITING_EMAIL)
        ELSE IF StartsWith(ev.data, RemovePrefix)
        THEN IF ~t.exc THEN show_cart(F, t.w, ev, TRUE)
             ELSE IF x.exc THEN x
             ELSE show_cart(F, x.w, ev, TRUE)
        ELSE Ret(a.w, STATE_HANDLE_CART)

\* Mutant: every text that is not blank passes.
LooksLikeEmail_any(email) == Len(email) > 0

\* Mutant: one of the two characters is enough.
LooksLikeEmail_either(email) == Contains(email, "@") \/ Contains(email, ".")

\* "@" in email and "." in email
LooksLikeEmail(email) == Contains(email, "@") /\ Contains(email, ".")

handle_waiting_email(F, w, ev) ==
    LET a == Answer(F, w)
        email == Strip(ev.data)
        c == create_or_update_client(F, w, IntToStr(ev.chat_id), email)
        s == Send(F, c.w, "thanks", <<>>)
        k == build_products_keyboard(F, s.w)
    IN  IF ~ev.is_message
        THEN IF a.exc THEN a
             ELSE SendThen(F, a.w, "email_as_text", <<>>, STATE_WAITING_EMAIL)
        ELSE IF ~LooksLikeEmail(email)
        THEN SendThen(F, w, "not_email", <<>>, STATE_WAITING_EMAIL)
        ELSE IF s.exc THEN s
        ELSE SendThen(F, k.w, "menu", k.val, STATE_HANDLE_MENU)

(***************************************************************************)
(* The state: the session store (db), the backend's records, and what the  *)
(* event handled last was dispatched to and showed to the user.            *)
(***************************************************************************)
VARIABLES db, carts, items, clients, nextItem, last, raw, rendered, procs, screen, added

vars ==
    <<db, carts, items, clients, nextItem, last, raw, rendered, procs, screen, added>>

\* The texts users send.
TextNotAnEmail == <<"n", "o", "t", "-", "a", "n", "-", "e", "m", "a", "i", "l">>
TextFooAtBar == <<"f", "o", "o", "@", "b", "a", "r">>
TextDotOnly == <<"a", ".", "b">>
TextEmail == <<"a", "@", "b", ".", "c">>
TextEmailPadded == <<" ", "x", "@", "y", ".", "z", " ">>

Texts == {CmdStart, TextNotAnEmail, TextFooAtBar, TextDotOnly,
          TextEmail, TextEmailPadded}

\* The carts of the chats whose events are handled.
OwnCartIds == {carts[i].id : i \in {j \in 1..Len(carts) : carts[j].tg_id # IntToStr(OtherChat)}}

\* The ids of the cart items a remove button can name: every id the backend
\* has given or can give, but those of another user's items.
RemovableIds ==
    {n \in 1..MaxItemId :
        \A i \in 1..Len(items) : items[i].id = n => items[i].cart \in OwnCartIds}

\* The callback_data of the buttons a user can press.
Payloads ==
    {PNoProducts, PShowCart, PBackToMenu, PPay}
    \cup {ProductPayload(p) : p \in 1..GoneProduct}
    \cup {AddPayload(p) : p \in 1..GoneProduct}
    \cup {RemovePayload(DocId(n)) : n \in RemovableIds}

Events ==
    [chat_id : Chats, is_message : {TRUE}, data : Texts]
    \cup [chat_id : Chats, is_message : {FALSE}, data : Payloads]

\* The world an event starts in: the backend as it is, nothing sent yet.
World == [carts |-> carts, items |-> items, clients |-> clients,
          nextItem |-> nextItem, log |-> <<>>, msgs |-> <<>>, view |-> <<>>]

\* Mutant: the stored state is not read.
UserState_ignores_saved(ev) == STATE_START

\* user_state of handle_users_reply when db.get(chat_id) returns saved_state.
UserStateOf(saved_state, ev) ==
    IF ev.data = CmdStart THEN STATE_START
    ELSE IF saved_state = NoState THEN STATE_START
    ELSE saved_state

\* user_state of handle_users_reply.
UserState(ev) == UserStateOf(db[ev.chat_id], ev)

\* Mutant: a state that is no label is served by handle_menu.
RunHandler_unknown_to_menu(F, w, ev, user_state) ==
    IF user_state = STATE_START THEN start(F, w, ev)
    ELSE IF user_state = STATE_HANDLE_DESCRIPTION THEN handle_description(F, w, ev)
    ELSE IF user_state = STATE_HANDLE_CART THEN handle_cart(F, w, ev)
    ELSE IF user_state = STATE_WAITING_EMAIL THEN handle_waiting_email(F, w, ev)
    ELSE handle_menu(F, w, ev)

\* Mutant: an add or a remove button is served whatever the state.
RunHandler_by_button(F, w, ev, user_state) ==
    IF ~ev.is_message /\ StartsWith(ev.data, AddPrefix)
    THEN handle_description(F, w, ev)
    ELSE IF ~ev.is_message /\ StartsWith(ev.data, RemovePrefix)
    THEN handle_cart(F, w, ev)
    ELSE IF user_state = STATE_HANDLE_MENU THEN handle_menu(F, w, ev)
    ELSE IF user_state = STATE_HANDLE_DESCRIPTION THEN handle_description(F, w, ev)
    ELSE IF user_state = STATE_HANDLE_CART THEN handle_cart(F, w, ev)
    ELSE IF user_state = STATE_WAITING_EMAIL THEN handle_waiting_email(F, w, ev)
    ELSE start(F, w, ev)

\* states.get(user_state, start)(update, context)
RunHandler(F, w, ev, user_state) ==
    IF user_state = STATE_HANDLE_MENU THEN handle_menu(F, w, ev)
    ELSE IF user_state = STATE_HANDLE_DESCRIPTION THEN handle_description(F, w, ev)
    ELSE IF user_state = STATE_HANDLE_CART THEN handle_cart(F, w, ev)
    ELSE IF user_state = STATE_WAITING_EMAIL THEN handle_waiting_email(F, w, ev)
    ELSE start(F, w, ev)

\* The calls each handler's code can make: a failure of any other call
\* cannot reach it.
HandlerCalls(user_state) ==
    IF user_state = STATE_HANDLE_MENU
    THEN {"answer", "send", "photo", "get_product", "get_cart", "list_items"}
    ELSE IF user_state = STATE_HANDLE_DESCRIPTION
    THEN {"answer", "send", "fetch_products", "get_product", "get_cart", "list_items",
          "create_cart", "find_item", "create_item", "update_item"}
    ELSE IF user_state = STATE_HANDLE_CART
    THEN {"answer", "send", "edit", "fetch_products", "delete_item", Delete404,
          "update_item", "get_cart", "list_items"}
    ELSE IF user_state = STATE_WAITING_EMAIL
    THEN {"answer", "send", "fetch_products", "find_client", "create_client",
          "update_client"}
    ELSE {"fetch_products", "send"}

\* The sets of calls that fail while one event is handled.
Faults(ev) == {F \in SUBSET HandlerCalls(UserState(ev)) : Cardinality(F) <= MaxFaults}

\* What the dispatched handler does with the event.
Outcome(ev, F) == RunHandler(F, World, ev, UserState(ev))

\* Mutant: a handler's failure leaves the stored state as it was.
Committed_keeps_state(ev, r) == IF r.exc THEN db[ev.chat_id] ELSE r.val

\* The value handle_users_reply stores for the chat: next_state, or START
\* when the handler raised.
Committed(ev, r) == IF r.exc THEN STATE_START ELSE r.val

\* handle_users_reply run on the stored state st.state and the backend
\* st.w, every call succeeding: the state stored and the backend afterwards,
\* with what the event showed.
Handled(st, ev) ==
    LET w0 == [st.w EXCEPT !.log = <<>>, !.msgs = <<>>, !.view = <<>>]
        r == RunHandler({}, w0, ev, UserStateOf(st.state, ev))
    IN  [state |-> Committed(ev, r), w |-> r.w]

\* The model's bounds: no cart item gets an id above MaxItemId and no
\* quantity exceeds MaxQty.
WithinBounds(w) ==
    /\ w.nextItem <= MaxItemId + 1
    /\ \A i \in 1..Len(w.items) : NumOr(w.items[i].qty_kg, 0) <= MaxQty

\* The record of another user: a cart holding one item.
OtherCart == [id |-> 1, tg_id |-> IntToStr(OtherChat)]

OtherItem == [id |-> 1, documentId |-> DocId(1), cart |-> 1, product |-> 1, qty_kg |-> <<2>>]

NoLast ==
    [chat_id |-> 0, user_state |-> NoState, raised |-> FALSE, msgs |-> <<>>,
     view |-> <<>>]

Init ==
    /\ db = [c \in Chats |-> NoState]
    /\ clients = <<>>
    /\ last = NoLast
    /\ raw = <<>>
    /\ rendered = <<>>
    /\ procs = <<>>
    /\ screen = {}
    /\ added = <<>>
    /\ \/ carts = <<>> /\ items = <<>> /\ nextItem = 1
       \/ carts = <<OtherCart>> /\ items = <<OtherItem>> /\ nextItem = 2

\* handle_users_reply.
HandleUsersReply(ev, F) ==
    \E r \in {Outcome(ev, F)} :
        /\ WithinBounds(r.w)
        /\ db' = [db EXCEPT ![ev.chat_id] = Committed(ev, r)]
        /\ carts' = r.w.carts
        /\ items' = r.w.items
        /\ clients' = r.w.clients
        /\ nextItem' = r.w.nextItem
        /\ last' = [chat_id |-> ev.chat_id, user_state |-> UserState(ev),
                    raised |-> r.exc, msgs |-> r.w.msgs, view |-> r.w.view]
        /\ UNCHANGED <<raw, rendered, procs, screen, added>>

\* One action for each handler handle_users_reply dispatches to.
Start ==
    \E ev \in Events :
        /\ UserState(ev) = STATE_START
        /\ \E F \in Faults(ev) : HandleUsersReply(ev, F)

HandleMenu ==
    \E ev \in Events :
        /\ UserState(ev) = STATE_HANDLE_MENU
        /\ \E F \in Faults(ev) : HandleUsersReply(ev, F)

HandleDescription ==
    \E ev \in Events :
        /\ UserState(ev) = STATE_HANDLE_DESCRIPTION
        /\ \E F \in Faults(ev) : HandleUsersReply(ev, F)

HandleCart ==
    \E ev \in Events :
        /\ UserState(ev) = STATE_HANDLE_CART
        /\ \E F \in Faults(ev) : HandleUsersReply(ev, F)

HandleWaitingEmail ==
    \E ev \in Events :
        /\ UserState(ev) = STATE_WAITING_EMAIL
        /\ \E F \in Faults(ev) : HandleUsersReply(ev, F)

Next == Start \/ HandleMenu \/ HandleDescription \/ HandleCart \/ HandleWaitingEmail

Spec == Init /\ [][Next]_vars

(***************************************************************************)
(* The cart view as a function of the records the backend returns: raw is  *)
(* the answer of get_cart_items_with_products, rendered what show_cart     *)
(* makes of it.                                                            *)
(***************************************************************************)
\* The records the backend can return as the i-th of an answer: with or
\* without a documentId, a quantity that is absent, negative, zero or
\* positive, a product or none.
RawRecords(i) ==
    [id : {i}, documentId : {<<>>, DocId(i)},
     qty_kg : {<<>>, <<0 - 1>>, <<0>>, <<1>>, <<3>>},
     product : {<<>>} \cup {<<Catalog[k]>> : k \in 1..Len(Catalog)}]

RawAnswers ==
    UNION {{s \in [1..n -> UNION {RawRecords(i) : i \in 1..n}] :
                \A i \in 1..n : s[i] \in RawRecords(i)} : n \in 0..MaxRaw}

InitView ==
    /\ db = [c \in Chats |-> NoState]
    /\ carts = <<>>
    /\ items = <<>>
    /\ clients = <<>>
    /\ nextItem = 1
    /\ last = NoLast
    /\ raw \in RawAnswers
    /\ rendered = <<>>
    /\ procs = <<>>
    /\ screen = {}
    /\ added = <<>>

Render ==
    /\ rendered = <<>>
    /\ rendered' = <<CartView(raw)>>
    /\ UNCHANGED <<db, carts, items, clients, nextItem, last, raw, procs, screen, added>>

NextView == Render

SpecView == InitView /\ [][NextView]_vars

IsAdd(ev) == ~ev.is_message /\ StartsWith(ev.data, AddPrefix)

IsRemove(ev) == ~ev.is_message /\ StartsWith(ev.data, RemovePrefix)

(***************************************************************************)
(* Events of one chat handled concurrently. Nothing in handle_users_reply  *)
(* or in the cart client locks a chat, so the requests of two handlings    *)
(* can interleave. procs[p] is one handling of an add event in             *)
(* HANDLE_DESCRIPTION or of a remove event in HANDLE_CART, advanced one    *)
(* backend request at a time; every request is answered. The events that  *)
(* move the chat between the states are handled in one step. The products  *)
(* pressed are those of RaceProducts.                                      *)
(***************************************************************************)
Procs == 1..NumProcs

RaceProducts == {Catalog[1].id, Catalog[2].id}

RaceChat == 1

Idle ==
    [pc |-> "idle", product_id |-> 0, qty_val |-> 0, cart |-> <<>>, found |-> <<>>,
     new_qty |-> 0, item_id |-> <<>>, next_state |-> NoState, fellback |-> FALSE]

\* The (cart, product) pairs of the chat. added[pair] is the history of the
\* pair: the sum of the quantities that add events have written to the
\* pair's items since an item of the pair was last deleted or zeroed.
Pairs == (1..MaxCarts) \X RaceProducts

InitRace ==
    /\ db = [c \in Chats |-> NoState]
    /\ carts = <<>>
    /\ items = <<>>
    /\ clients = <<>>
    /\ nextItem = 1
    /\ last = NoLast
    /\ raw = <<>>
    /\ rendered = <<>>
    /\ procs = [p \in Procs |-> Idle]
    /\ screen = {}
    /\ added = [pair \in Pairs |-> 0]

backend == <<carts, items, nextItem>>

\* The history once the item the route names, if any, is deleted or zeroed.
Forgotten(item_id) ==
    [pair \in Pairs |->
        IF \E i \in Routed(World, item_id) : pair = <<items[i].cart, items[i].product>>
        THEN 0 ELSE added[pair]]

RaceNavigation ==
    {[chat_id |-> RaceChat, is_message |-> TRUE, data |-> CmdStart]}
    \cup {[chat_id |-> RaceChat, is_message |-> FALSE, data |-> d] :
             d \in {PShowCart, PBackToMenu}
                   \cup {ProductPayload(i) : i \in RaceProducts}}

\* "/start", a product, the cart or the menu pressed and handled from its
\* first request to db.set with no request of another handling in between.
RaceSerial ==
    \E ev \in RaceNavigation :
        /\ \E r \in {Outcome(ev, {})} :
            /\ WithinBounds(r.w)
            /\ Len(r.w.carts) <= MaxCarts
            /\ db' = [db EXCEPT ![ev.chat_id] = Committed(ev, r)]
            /\ carts' = r.w.carts
            /\ items' = r.w.items
            /\ nextItem' = r.w.nextItem
        /\ UNCHANGED <<clients, last, raw, rendered, procs, screen, added>>

\* handle_users_reply reads the state and dispatches; handle_description
\* parses the payload and fetches the product, handle_cart parses the item.
RaceBegin ==
    \E p \in Procs : \E ev \in Events :
        /\ procs[p].pc = "idle"
        /\ ev.chat_id = RaceChat
        /\ \/ /\ IsAdd(ev) /\ UserState(ev) = STATE_HANDLE_DESCRIPTION
              /\ \E n \in {ParseInt(SplitFirst(ev.data).val)} :
                    /\ n.ok
                    /\ n.val \in RaceProducts
                    /\ get_product_by_id({}, World, n.val).val # <<>>
                    /\ procs' = [procs EXCEPT ![p] =
                           [Idle EXCEPT !.pc = "get_cart", !.product_id = n.val,
                                        !.qty_val =
                                            NumOr(get_product_by_id({}, World, n.val)
                                                      .val[1].qty_kg, 1),
                                        !.next_state = STATE_HANDLE_DESCRIPTION]]
           \/ /\ IsRemove(ev) /\ UserState(ev) = STATE_HANDLE_CART
              /\ \E n \in 1..nextItem - 1 : ev.data = RemovePayload(DocId(n))
              /\ procs' = [procs EXCEPT ![p] =
                     [Idle EXCEPT !.pc = "delete_item",
                                  !.item_id = RSplitLast(ev.data).val,
                                  !.next_state = STATE_HANDLE_CART]]
        /\ UNCHANGED <<db, backend, clients, last, raw, rendered, screen, added>>

\* ensure_cart_exists: get_cart_by_tg.
RaceGetCart ==
    \E p \in Procs :
        /\ procs[p].pc = "get_cart"
        /\ \E r \in {get_cart_by_tg({}, World, IntToStr(RaceChat))} :
            procs' = [procs EXCEPT ![p].cart = r.val,
                                   ![p].pc = IF r.val = <<>> THEN "create_cart"
                                             ELSE "find_item"]
        /\ UNCHANGED <<db, backend, clients, last, raw, rendered, screen, added>>

\* ensure_cart_exists: create_cart_for_tg.
RaceCreateCart ==
    \E p \in Procs :
        /\ procs[p].pc = "create_cart"
        /\ Len(carts) < MaxCarts
        /\ \E r \in {create_cart_for_tg({}, World, IntToStr(RaceChat))} :
            /\ carts' = r.w.carts
            /\ procs' = [procs EXCEPT ![p].cart = r.val, ![p].pc = "find_item"]
        /\ UNCHANGED <<db, items, nextItem, clients, last, raw, rendered, screen, added>>

\* add_or_increment_item: find_cart_item.
RaceFindItem ==
    \E p \in Procs :
        /\ procs[p].pc = "find_item"
        /\ \E r \in {find_cart_item({}, World, procs[p].cart[1].id,
                                    procs[p].product_id)} :
            procs' = [procs EXCEPT
                ![p].found = r.val,
                ![p].new_qty = IF r.val = <<>> THEN procs[p].qty_val
                               ELSE NumOr(r.val[1].qty_kg, 0) + procs[p].qty_val,
                ![p].pc = IF r.val = <<>> THEN "create_item" ELSE "update_item"]
        /\ UNCHANGED <<db, backend, clients, last, raw, rendered, screen, added>>

\* add_or_increment_item: update_cart_item_qty of the item found; answered
\* not-found, the item is created.
RaceUpdateItem ==
    \E p \in Procs :
        /\ procs[p].pc = "update_item"
        /\ procs[p].new_qty <= MaxQty
        /\ \E u \in {update_cart_item_qty({}, World,
                      get_cart_item_identifier(procs[p].found[1]),
                      procs[p].new_qty)} :
            /\ items' = u.w.items
            /\ added' = IF u.val = <<>> THEN added
                         ELSE [added EXCEPT
                                  ![<<procs[p].cart[1].id, procs[p].product_id>>] =
                                      @ + procs[p].qty_val]
            /\ procs' = [procs EXCEPT
                   ![p].fellback = (u.val = <<>>),
                   ![p].pc = IF u.val = <<>> THEN "create_item" ELSE "commit"]
        /\ UNCHANGED <<db, carts, nextItem, clients, last, raw, rendered, screen>>

\* add_or_increment_item: create_cart_item, when no item was found or the
\* update was answered not-found.
RaceCreateItem ==
    \E p \in Procs :
        /\ procs[p].pc = "create_item"
        /\ \E r \in {create_cart_item({}, World, procs[p].cart[1].id,
                                      procs[p].product_id, procs[p].new_qty)} :
            /\ WithinBounds(r.w)
            /\ items' = r.w.items
            /\ nextItem' = r.w.nextItem
            /\ added' = [added EXCEPT
                             ![<<procs[p].cart[1].id, procs[p].product_id>>] =
                                 @ + procs[p].qty_val]
            /\ procs' = [procs EXCEPT ![p].pc = "commit"]
        /\ UNCHANGED <<db, carts, clients, last, raw, rendered, screen>>

\* handle_cart: delete_cart_item.
RaceDeleteItem ==
    \E p \in Procs :
        /\ procs[p].pc = "delete_item"
        /\ \E d \in {delete_cart_item({}, World, procs[p].item_id)} :
            items' = d.w.items
        /\ added' = Forgotten(procs[p].item_id)
        /\ procs' = [procs EXCEPT ![p].pc = "hide_item"]
        /\ UNCHANGED <<db, carts, nextItem, clients, last, raw, rendered, screen>>

\* handle_cart: hide_cart_item.
RaceHideItem ==
    \E p \in Procs :
        /\ procs[p].pc = "hide_item"
        /\ \E h \in {hide_cart_item({}, World, procs[p].item_id)} :
            items' = h.w.items
        /\ added' = Forgotten(procs[p].item_id)
        /\ procs' = [procs EXCEPT ![p].pc = "commit"]
        /\ UNCHANGED <<db, carts, nextItem, clients, last, raw, rendered, screen>>

\* The handler replies and returns, and handle_users_reply stores its
\* state. handle_cart returns through show_cart, whose requests only read.
RaceCommit ==
    \E p \in Procs :
        /\ procs[p].pc = "commit"
        /\ db' = [db EXCEPT ![RaceChat] = procs[p].next_state]
        /\ procs' = [procs EXCEPT ![p] = Idle]
        /\ UNCHANGED <<backend, clients, last, raw, rendered, screen, added>>

NextRace ==
    \/ RaceSerial
    \/ RaceBegin
    \/ RaceGetCart
    \/ RaceCreateCart
    \/ RaceFindItem
    \/ RaceUpdateItem
    \/ RaceCreateItem
    \/ RaceDeleteItem
    \/ RaceHideItem
    \/ RaceCommit

SpecRace == InitRace /\ [][NextRace]_vars

(***************************************************************************)
(* The buttons a chat can press. A button is pressed on a message that is  *)
(* in the chat: screen holds the messages with a keyboard that the bot     *)
(* sent and has not deleted, the cart message as last edited. Messages     *)
(* with the same text and keyboard are held once, and a deletion takes     *)
(* every message of the kind deleted, so screen holds no message the chat  *)
(* does not have. Every call is answered.                                  *)
(***************************************************************************)
InitChat ==
    /\ db = [c \in Chats |-> NoState]
    /\ carts = <<>>
    /\ items = <<>>
    /\ clients = <<>>
    /\ nextItem = 1
    /\ last = NoLast
    /\ raw = <<>>
    /\ rendered = <<>>
    /\ procs = <<>>
    /\ screen = {}
    /\ added = <<>>

\* The messages with a keyboard among those a handler sent.
WithKeyboard(msgs) == {msgs[i] : i \in {j \in 1..Len(msgs) : msgs[j].kb # <<>>}}

\* The messages a button press takes from the chat: handle_menu deletes the
\* menu when it shows a card, handle_description deletes the card when it
\* goes back to the menu, and show_cart edits the cart message whose remove
\* button was pressed.
Replaced(ev, r, pressed) ==
    IF UserState(ev) = STATE_HANDLE_MENU /\ ~r.exc /\ r.val = STATE_HANDLE_DESCRIPTION
    THEN {m \in screen : m.text = "menu"}
    ELSE IF UserState(ev) = STATE_HANDLE_DESCRIPTION /\ ev.data = PBackToMenu
    THEN {m \in screen : m.text = "card"}
    ELSE IF UserState(ev) = STATE_HANDLE_CART /\ IsRemove(ev)
    THEN {pressed}
    ELSE {}

ChatTexts == {CmdStart, TextEmail}

\* A text message or the command "/start".
ChatText ==
    \E text \in ChatTexts :
    \E ev \in {[chat_id |-> RaceChat, is_message |-> TRUE, data |-> text]} :
    \E r \in {Outcome(ev, {})} :
        /\ db' = [db EXCEPT ![ev.chat_id] = Committed(ev, r)]
        /\ clients' = r.w.clients
        /\ screen' = screen \cup WithKeyboard(r.w.msgs)
        /\ UNCHANGED <<backend, last, raw, rendered, procs, added>>

\* A button of a message in the chat is pressed.
ChatPress ==
    \E pressed \in screen : \E b \in 1..Len(pressed.kb) :
    \E ev \in {[chat_id |-> RaceChat, is_message |-> FALSE, data |-> pressed.kb[b]]} :
    \E r \in {Outcome(ev, {})} :
        /\ WithinBounds(r.w)
        /\ db' = [db EXCEPT ![ev.chat_id] = Committed(ev, r)]
        /\ carts' = r.w.carts
        /\ items' = r.w.items
        /\ nextItem' = r.w.nextItem
        /\ screen' = (screen \ Replaced(ev, r, pressed)) \cup WithKeyboard(r.w.msgs)
        /\ UNCHANGED <<clients, last, raw, rendered, procs, added>>

NextChat == ChatText \/ ChatPress

SpecChat == InitChat /\ [][NextChat]_vars

(***************************************************************************)
(* Properties.                                                             *)
(***************************************************************************)
\* The positions in its of the records of (cart_id, product_id).
ItemsOf(its, cart_id, product_id) ==
    {i \in 1..Len(its) : its[i].cart = cart_id /\ its[i].product = product_id}

\* The positions in cs of the carts of the chat.
CartsOf(cs, chat_id) == {i \in 1..Len(cs) : cs[i].tg_id = IntToStr(chat_id)}

IsShowCart(ev) == ~ev.is_message /\ ev.data = PShowCart

HasMsg(msgs, text) == \E i \in 1..Len(msgs) : msgs[i].text = text

\* C1: when the handler dispatched for an event raises, the state stored for
\* the chat after the event is START, and every event the chat sends next is
\* dispatched to the Start handler.
C1_HandlerFailureResetsToStart ==
    last.raised =>
        /\ db[last.chat_id] = STATE_START
        /\ \A ev \in Events : ev.chat_id = last.chat_id => UserState(ev) = STATE_START

\* A handler dispatched for the stored state WAITING_EMAIL has raised.
C1_Witness ==
    /\ last.raised
    /\ last.user_state = STATE_WAITING_EMAIL
    /\ db[last.chat_id] = STATE_START

\* C2: a failed backend call made inside a handler never escapes it: the
\* handler completes and commits the state of its table row (Cart for
\* show-cart and remove-item, Description for add, Menu for a valid email).
C2_BackendFailureNeverEscapes ==
    \A ev \in Events : \A F \in Faults(ev) :
        (F # {} /\ F \subseteq BackendCalls) =>
            LET r == Outcome(ev, F)
                us == UserState(ev)
            IN  /\ ~r.exc
                /\ (IsShowCart(ev) /\ us \in {STATE_HANDLE_MENU, STATE_HANDLE_DESCRIPTION})
                       => r.val = STATE_HANDLE_CART
                /\ (IsRemove(ev) /\ us = STATE_HANDLE_CART) => r.val = STATE_HANDLE_CART
                /\ (IsAdd(ev) /\ us = STATE_HANDLE_DESCRIPTION)
                       => r.val = STATE_HANDLE_DESCRIPTION
                /\ (ev.is_message /\ us = STATE_WAITING_EMAIL
                        /\ Contains(ev.data, "@") /\ Contains(ev.data, "."))
                       => r.val = STATE_HANDLE_MENU

\* C3: for every cart and product with no item of the pair, two sequential
\* calls add_or_increment_item(a) then add_or_increment_item(b), all backend
\* calls succeeding, leave exactly one item of the pair, of quantity a + b.
C3_TwoAddsOneItem ==
    \A c \in 1..Len(carts) : \A product_id \in 1..GoneProduct :
        \A a \in 1..MaxAdd : \A b \in 1..MaxAdd :
            ItemsOf(items, carts[c].id, product_id) = {} =>
                LET r1 == add_or_increment_item({}, World, carts[c].id, product_id, a)
                    r2 == add_or_increment_item({}, r1.w, carts[c].id, product_id, b)
                    at == ItemsOf(r2.w.items, carts[c].id, product_id)
                IN  /\ ~r1.exc /\ ~r2.exc
                    /\ Cardinality(at) = 1
                    /\ \A i \in at : r2.w.items[i].qty_kg = <<a + b>>
                    /\ Len(r2.w.items) = Len(items) + 1

\* Two add events for product 1 (2 kg each) have left one item of 4 kg.
C3_Witness ==
    /\ last.user_state = STATE_HANDLE_DESCRIPTION
    /\ HasMsg(last.msgs, "added")
    /\ \E i \in 1..Len(items) :
        /\ items[i].cart \in OwnCartIds
        /\ items[i].product = 1
        /\ items[i].qty_kg = <<4>>
        /\ ItemsOf(items, items[i].cart, 1) = {i}

\* C4: with events handled one at a time, after any sequence of add and
\* remove events, whatever the hard delete and the soft-hide answer, the
\* backend holds at most one item record for each (cart, product).
C4_OneItemPerPair ==
    \A i \in 1..Len(items) : \A j \in 1..Len(items) :
        (items[i].cart = items[j].cart /\ items[i].product = items[j].product) => i = j

\* An add event has raised the quantity of an item that a remove event had
\* hidden (the hard delete answered not-found, the soft-hide succeeded)
\* while the cart holds an item of the other product.
C4_Witness ==
    /\ last.user_state = STATE_HANDLE_DESCRIPTION
    /\ HasMsg(last.msgs, "added")
    /\ \E i \in 1..Len(items) : \E j \in 1..Len(items) :
        /\ items[i].cart \in OwnCartIds
        /\ items[j].cart = items[i].cart
        /\ items[i].product # items[j].product
        /\ items[j].qty_kg = <<0>>

\* C5: for every chat, sequential repeated calls of ensure_cart_exists
\* return the cart the first call returned or created, and the backend
\* never holds more than one cart of the chat.
C5_EnsureCartIdempotent ==
    \A chat_id \in Chats \cup {OtherChat} :
        LET r1 == ensure_cart_exists({}, World, IntToStr(chat_id))
            r2 == ensure_cart_exists({}, r1.w, IntToStr(chat_id))
            r3 == ensure_cart_exists({}, r2.w, IntToStr(chat_id))
        IN  /\ Cardinality(CartsOf(carts, chat_id)) <= 1
            /\ ~r1.exc /\ ~r2.exc /\ ~r3.exc
            /\ r1.val # <<>>
            /\ r2.val = r1.val /\ r3.val = r1.val
            /\ r2.w.carts = r1.w.carts /\ r3.w.carts = r1.w.carts
            /\ Cardinality(CartsOf(r3.w.carts, chat_id)) = 1

\* An add event has created the chat's cart beside another user's cart.
C5_Witness ==
    /\ Len(carts) = 2
    /\ \E chat_id \in Chats : Cardinality(CartsOf(carts, chat_id)) = 1
    /\ last.user_state = STATE_HANDLE_DESCRIPTION

\* The positions of the records of an answer whose quantity is > 0.
Positive(answer) ==
    {i \in 1..Len(answer) : answer[i].qty_kg # <<>> /\ answer[i].qty_kg[1] > 0}

\* quantity x price of a record (no product: price 0).
Worth(rec) == rec.qty_kg[1] * (IF rec.product = <<>> THEN 0 ELSE rec.product[1].price)

RECURSIVE SumWorth(_, _)
SumWorth(answer, S) ==
    IF S = {} THEN 0
    ELSE LET i == CHOOSE j \in S : TRUE
         IN  Worth(answer[i]) + SumWorth(answer, S \ {i})

\* The item ids the view lists, and the ones its remove buttons name.
ListedIds(view) == {view.lines[k].item_id : k \in 1..Len(view.lines)}

RemoveButtons(view) ==
    {view.kb[k] : k \in {j \in 1..Len(view.kb) : StartsWith(view.kb[j], RemovePrefix)}}

\* C6: for every answer of the backend, the view lists, and offers a remove
\* button for, exactly the items of quantity > 0, its total is the sum of
\* quantity x price over those, and with no such item it is the empty-cart
\* placeholder.
C6_ViewListsPositiveItems ==
    rendered # <<>> =>
        LET view == rendered[1]
            pos == Positive(raw)
        IN  /\ view.empty <=> pos = {}
            /\ Len(view.lines) = Cardinality(pos)
            /\ ListedIds(view) = {get_cart_item_identifier(raw[i]) : i \in pos}
            /\ RemoveButtons(view)
                   = {RemovePayload(get_cart_item_identifier(raw[i])) : i \in pos}
            /\ view.total = SumWorth(raw, pos)
            /\ view.empty => view.kb = <<PBackToMenu>>
            /\ ~view.empty =>
                   /\ Len(view.kb) = Cardinality(pos) + 2
                   /\ \A k \in 1..Len(view.lines) :
                       /\ view.lines[k].subtotal = view.lines[k].qty * view.lines[k].price
                       /\ view.kb[k] = RemovePayload(view.lines[k].item_id)

\* An answer with a hidden item (quantity 0) and a 3 kg item of a product
\* has been rendered.
C6_Witness ==
    /\ rendered # <<>>
    /\ Len(raw) = 2
    /\ raw[1].qty_kg = <<0>>
    /\ raw[2].qty_kg = <<3>> /\ raw[2].product # <<>>
    /\ Len(rendered[1].lines) = 1
    /\ rendered[1].total > 0

\* The item of the chat's cart that a remove event names, if it is listed
\* (quantity > 0) in the current state.
ListedNow(ev, n) ==
    /\ ev.data = RemovePayload(DocId(n))
    /\ \E i \in 1..Len(items) :
        /\ items[i].id = n
        /\ items[i].cart \in OwnCartIds
        /\ items[i].qty_kg[1] > 0

\* C7: after a remove event for a listed item the view rendered next never
\* lists it, whether the hard delete succeeds, reports not-found or is
\* rejected while the record exists.
C7_RemovedItemNeverListed ==
    \A ev \in Events : \A n \in 1..MaxItemId :
        \A F \in {{}, {Delete404}, {"delete_item"}} :
            (UserState(ev) = STATE_HANDLE_CART /\ IsRemove(ev) /\ ListedNow(ev, n)) =>
                LET r == Outcome(ev, F)
                IN  /\ ~r.exc
                    /\ r.w.view # <<>>
                    /\ DocId(n) \notin ListedIds(r.w.view[1])

\* The calls a handling made.
Made(r) == {r.w.log[k] : k \in 1..Len(r.w.log)}

\* C8: on every remove event both the hard delete and the soft-hide are
\* attempted, whatever the first answers, and the user is told the item was
\* removed exactly when one of the two succeeded.
C8_BothRemovalsAttempted ==
    \A ev \in Events : \A n \in 1..MaxItemId :
        \A F \in {{}, {Delete404}, {"delete_item"}, {"update_item"}} :
            (UserState(ev) = STATE_HANDLE_CART /\ ev.data = RemovePayload(DocId(n))) =>
                LET r == Outcome(ev, F)
                    before == \E i \in 1..Len(items) : items[i].id = n
                    after == {i \in 1..Len(r.w.items) : r.w.items[i].id = n}
                    deleted == before /\ after = {}
                    hidden == /\ "update_item" \notin F
                              /\ \E i \in after : r.w.items[i].qty_kg = <<0>>
                IN  /\ {"delete_item", "update_item"} \subseteq Made(r)
                    /\ HasMsg(r.w.msgs, "removed") <=> (deleted \/ hidden)

\* The characters of a text.
Chars(text) == {text[i] : i \in 1..Len(text)}

\* C9: in state WAITING_EMAIL a text is accepted as an email exactly when it
\* holds both "@" and "." (blanks around it do not count); a text lacking
\* one of them is rejected, no client is written, and when the reply is
\* delivered the state stays WAITING_EMAIL.
C9_EmailAcceptedIffAtAndDot ==
    \A ev \in Events : \A F \in Faults(ev) :
        (ev.is_message /\ UserState(ev) = STATE_WAITING_EMAIL) =>
            LET r == Outcome(ev, F)
                valid == "@" \in Chars(ev.data) /\ "." \in Chars(ev.data)
            IN  /\ "find_client" \in Made(r) <=> valid
                /\ (valid /\ ~r.exc) =>
                       /\ HasMsg(r.w.msgs, "thanks")
                       /\ r.val = STATE_HANDLE_MENU
                /\ ~valid =>
                       /\ r.w.clients = clients
                       /\ ~HasMsg(r.w.msgs, "thanks")
                       /\ r.exc <=> "send" \in F
                       /\ ~r.exc =>
                              /\ r.val = STATE_WAITING_EMAIL
                              /\ r.w.msgs = <<[text |-> "not_email", kb |-> <<>>]>>

\* A text has been rejected in WAITING_EMAIL and the state stayed.
C9_Witness ==
    /\ last.user_state = STATE_WAITING_EMAIL
    /\ ~last.raised
    /\ last.msgs = <<[text |-> "not_email", kb |-> <<>>]>>
    /\ db[last.chat_id] = STATE_WAITING_EMAIL

\* The rows of the transition table, for an event handled in user_state us.
TableRow(us, ev) ==
    IF ev.is_message THEN NoState
    ELSE IF us = STATE_HANDLE_MENU /\ \E k \in 1..Len(Catalog) : ev.data = IntToStr(Catalog[k].id)
    THEN STATE_HANDLE_DESCRIPTION
    ELSE IF us \in {STATE_HANDLE_MENU, STATE_HANDLE_DESCRIPTION} /\ ev.data = PShowCart
    THEN STATE_HANDLE_CART
    ELSE IF us = STATE_HANDLE_MENU /\ ev.data = PNoProducts THEN STATE_START
    ELSE IF us = STATE_HANDLE_DESCRIPTION /\ ev.data = PBackToMenu THEN STATE_HANDLE_MENU
    ELSE IF us = STATE_HANDLE_DESCRIPTION /\ StartsWith(ev.data, AddPrefix)
    THEN STATE_HANDLE_DESCRIPTION
    ELSE IF us = STATE_HANDLE_CART /\ ev.data = PBackToMenu THEN STATE_HANDLE_MENU
    ELSE IF us = STATE_HANDLE_CART /\ ev.data = PPay THEN STATE_WAITING_EMAIL
    ELSE IF us = STATE_HANDLE_CART /\ StartsWith(ev.data, RemovePrefix)
    THEN STATE_HANDLE_CART
    ELSE IF us = STATE_WAITING_EMAIL THEN STATE_WAITING_EMAIL
    ELSE NoState

\* C10: with every backend and transport call succeeding, the state
\* committed after an event is the one the transition table lists for the
\* stored state and the event.
C10_TransitionTable ==
    \A ev \in Events :
        LET saved == IF db[ev.chat_id] = NoState THEN STATE_START ELSE db[ev.chat_id]
            r == Outcome(ev, {})
        IN  TableRow(saved, ev) # NoState =>
                /\ ~r.exc
                /\ Committed(ev, r) = TableRow(saved, ev)

\* A pay event handled in HANDLE_CART has committed WAITING_EMAIL.
C10_Witness ==
    /\ last.user_state = STATE_HANDLE_CART
    /\ ~last.raised
    /\ HasMsg(last.msgs, "ask_email")
    /\ db[last.chat_id] = STATE_WAITING_EMAIL

\* An event no transition row of the stored state us recognises: a text
\* other than "/start" in Menu, Description or Cart, or a button whose
\* payload is outside the state's vocabulary.
Unrecognised(us, ev) ==
    /\ us \in {STATE_HANDLE_MENU, STATE_HANDLE_DESCRIPTION, STATE_HANDLE_CART,
               STATE_WAITING_EMAIL}
    /\ IF ev.is_message
       THEN us # STATE_WAITING_EMAIL /\ ev.data # CmdStart
       ELSE us = STATE_WAITING_EMAIL \/ TableRow(us, ev) = NoState

\* C11: in Menu, Description, Cart and WaitingEmail an event that no
\* transition row of the state recognises leaves the chat's stored state
\* as it was.
C11_UnrecognisedEventStays ==
    \A ev \in Events :
        Unrecognised(db[ev.chat_id], ev) =>
            LET r == Outcome(ev, {})
            IN  /\ ~r.exc
                /\ Committed(ev, r) = db[ev.chat_id]

Text(chat_id, data) == [chat_id |-> chat_id, is_message |-> TRUE, data |-> data]

Button(chat_id, data) == [chat_id |-> chat_id, is_message |-> FALSE, data |-> data]

\* The records of its that belong to a cart of the chat in backend w.
OwnItems(w, chat_id) ==
    SelectSeq(w.items, LAMBDA it :
        \E i \in CartsOf(w.carts, chat_id) : w.carts[i].id = it.cart)

\* C12: for a chat that has no cart yet, every call succeeding: "/start"
\* commits Menu; the button of a product commits Description; its add
\* button leaves one item of the product with the product's quantity q; a
\* second add leaves the same single item with 2q; "show_cart" commits Cart
\* and lists the product with total 2q x price; the remove button of that
\* item commits Cart and the view rendered is the empty-cart placeholder
\* whose keyboard offers back-to-menu only.
C12_EndToEndTrace ==
    \A c \in Chats : \A k \in 1..Len(Catalog) :
        CartsOf(carts, c) = {} =>
            LET product == Catalog[k]
                q == IF product.qty_kg \in {<<>>, <<0>>} THEN 1 ELSE product.qty_kg[1]
                s0 == [state |-> db[c], w |-> World]
                s1 == Handled(s0, Text(c, CmdStart))
                s2 == Handled(s1, Button(c, IntToStr(product.id)))
                s3 == Handled(s2, Button(c, AddPrefix \o IntToStr(product.id)))
                s4 == Handled(s3, Button(c, AddPrefix \o IntToStr(product.id)))
                s5 == Handled(s4, Button(c, PShowCart))
                its3 == OwnItems(s3.w, c)
                its4 == OwnItems(s4.w, c)
                view5 == s5.w.view[1]
                s6 == Handled(s5, Button(c, RemovePrefix \o view5.lines[1].item_id))
            IN  /\ s1.state = STATE_HANDLE_MENU
                /\ s2.state = STATE_HANDLE_DESCRIPTION
                /\ s3.state = STATE_HANDLE_DESCRIPTION
                /\ Len(its3) = 1
                /\ its3[1].product = product.id /\ its3[1].qty_kg = <<q>>
                /\ s4.state = STATE_HANDLE_DESCRIPTION
                /\ Len(its4) = 1
                /\ its4[1].id = its3[1].id
                /\ its4[1].product = product.id /\ its4[1].qty_kg = <<2 * q>>
                /\ s5.state = STATE_HANDLE_CART
                /\ s5.w.view # <<>>
                /\ Len(view5.lines) = 1
                /\ view5.lines[1].item_id = its4[1].documentId
                /\ view5.lines[1].qty = 2 * q
                /\ view5.total = 2 * q * product.price
                /\ s6.state = STATE_HANDLE_CART
                /\ s6.w.view = <<[empty |-> TRUE, lines |-> <<>>, total |-> 0,
                                  kb |-> <<PBackToMenu>>]>>
                /\ s6.w.msgs[Len(s6.w.msgs)].kb = <<PBackToMenu>>
                /\ OwnItems(s6.w, c) = <<>>

\* The trace has run to its end: a remove event has emptied the chat's
\* cart and the placeholder was rendered in state Cart.
C12_Witness ==
    /\ last.user_state = STATE_HANDLE_CART
    /\ ~last.raised
    /\ HasMsg(last.msgs, "removed")
    /\ last.view = <<[empty |-> TRUE, lines |-> <<>>, total |-> 0, kb |-> <<PBackToMenu>>]>>
    /\ db[last.chat_id] = STATE_HANDLE_CART
    /\ CartsOf(carts, last.chat_id) # {}
    /\ OwnItems(World, last.chat_id) = <<>>

\* The positions in cls of the client records of the chat.
ClientsOf(cls, chat_id) == {i \in 1..Len(cls) : cls[i].tg_id = IntToStr(chat_id)}

ClientCalls == {"find_client", "create_client", "update_client"}

C14_StartCommitsMenu ==
    \A ev \in Events :
        ((ev.is_message /\ ev.data = CmdStart) \/ db[ev.chat_id] = NoState) =>
            /\ UserState(ev) = STATE_START
            /\ \A F \in Faults(ev) :
                LET r == Outcome(ev, F)
                IN  /\ "fetch_products" \in Made(r)
                    /\ r.w.carts = carts /\ r.w.items = items /\ r.w.clients = clients
                    /\ r.exc <=> "send" \in F
                    /\ "send" \notin F =>
                           /\ Committed(ev, r) = STATE_HANDLE_MENU
                           /\ Len(r.w.msgs) = 1
                           /\ r.w.msgs[1].text = "menu"
                           /\ r.w.msgs[1].kb =
                                  IF "fetch_products" \in F
                                  THEN <<PNoProducts, PShowCart>>
                                  ELSE [i \in 1..Len(Catalog) |-> IntToStr(Catalog[i].id)]
                                           \o <<PShowCart>>

\* The Start handler has committed Menu although the catalog fetch failed,
\* for a chat that had been through WAITING_EMAIL before.
C14_Witness ==
    /\ last.user_state = STATE_START
    /\ ~last.raised
    /\ last.msgs = <<[text |-> "menu", kb |-> <<PNoProducts, PShowCart>>]>>
    /\ db[last.chat_id] = STATE_HANDLE_MENU
    /\ clients # <<>>

\* C15: no handler that completes normally commits START as the next
\* state: a chat that has left Start is routed to the Start handler again
\* only by "/start" or by a handler failure caught at the top level.
C15_StartOnlyByRestartOrFailure ==
    \A ev \in Events : \A F \in Faults(ev) :
        LET r == Outcome(ev, F)
        IN  ~r.exc => Committed(ev, r) # STATE_START

\* C17: a client record is created or updated only while a text that
\* passes the email check is handled in WAITING_EMAIL; every other event,
\* rejected texts and button presses in WAITING_EMAIL included, sends no
\* client write and leaves the client records as they were.
C17_ClientsWrittenOnlyByValidEmail ==
    \A ev \in Events : \A F \in Faults(ev) :
        LET r == Outcome(ev, F)
        IN  (r.w.clients # clients \/ Made(r) \cap ClientCalls # {}) =>
                /\ ev.is_message
                /\ UserState(ev) = STATE_WAITING_EMAIL
                /\ "@" \in Chars(ev.data) /\ "." \in Chars(ev.data)

\* The email "a@b.c" has been recorded for the chat.
C17_Witness ==
    /\ last.user_state = STATE_WAITING_EMAIL
    /\ \E i \in ClientsOf(clients, last.chat_id) :
        clients[i].email = <<"a", "@", "b", ".", "c">>

CartCalls == {"get_cart", "create_cart", "find_item", "create_item", "update_item"}

\* C19: when an add event in HANDLE_DESCRIPTION fails in a cart backend
\* call it makes (cart lookup or creation, item lookup, creation or update),
\* the user is told the add failed, HANDLE_DESCRIPTION is committed and the
\* cart item records are the same as before the event.
C19_FailedAddChangesNothing ==
    \A ev \in Events : \A F \in Faults(ev) :
        LET r == Outcome(ev, F)
        IN  (IsAdd(ev) /\ UserState(ev) = STATE_HANDLE_DESCRIPTION
                 /\ F \subseteq CartCalls /\ F \cap Made(r) # {}) =>
                /\ ~r.exc
                /\ Committed(ev, r) = STATE_HANDLE_DESCRIPTION
                /\ r.w.msgs = <<[text |-> "add_failed", kb |-> <<>>]>>
                /\ r.w.items = items
                /\ r.w.nextItem = nextItem

\* An add event for a product already in the chat's cart has failed: the
\* user was told so, the state is HANDLE_DESCRIPTION, the item is there.
C19_Witness ==
    /\ last.user_state = STATE_HANDLE_DESCRIPTION
    /\ ~last.raised
    /\ last.msgs = <<[text |-> "add_failed", kb |-> <<>>]>>
    /\ db[last.chat_id] = STATE_HANDLE_DESCRIPTION
    /\ Len(OwnItems(World, last.chat_id)) > 0

\* The records of the product in the carts of the chat, in backend w.
OwnItemsOf(w, chat_id, product_id) ==
    SelectSeq(OwnItems(w, chat_id), LAMBDA it : it.product = product_id)

\* The quantity of the product in the chat's cart (0 when it has no item).
QtyOf(w, chat_id, product_id) ==
    LET its == OwnItemsOf(w, chat_id, product_id)
    IN  IF Len(its) = 0 \/ its[1].qty_kg = <<>> THEN 0 ELSE its[1].qty_kg[1]

\* C20: an add event in HANDLE_DESCRIPTION raises the quantity of the
\* product's item in the chat's cart by the product's qty_kg as the catalog
\* returns it, or by 1 when qty_kg is absent or zero; when the product
\* cannot be fetched no cart and no cart item is created or changed and the
\* state stays HANDLE_DESCRIPTION.
C20_AddRaisesByProductQty ==
    \A ev \in Events : \A product_id \in 1..GoneProduct :
        (UserState(ev) = STATE_HANDLE_DESCRIPTION /\ ~ev.is_message
             /\ ev.data = AddPrefix \o IntToStr(product_id)) =>
            /\ \A k \in 1..Len(Catalog) :
                Catalog[k].id = product_id =>
                    LET r == Outcome(ev, {})
                        by == IF Catalog[k].qty_kg \in {<<>>, <<0>>}
                              THEN 1 ELSE Catalog[k].qty_kg[1]
                    IN  /\ ~r.exc
                        /\ Committed(ev, r) = STATE_HANDLE_DESCRIPTION
                        /\ r.w.msgs = <<[text |-> "added", kb |-> <<>>]>>
                        /\ Len(OwnItemsOf(r.w, ev.chat_id, product_id)) = 1
                        /\ QtyOf(r.w, ev.chat_id, product_id)
                               = QtyOf(World, ev.chat_id, product_id) + by
                        /\ \A other \in 1..GoneProduct :
                               other # product_id =>
                                   OwnItemsOf(r.w, ev.chat_id, other)
                                       = OwnItemsOf(World, ev.chat_id, other)
            /\ \A F \in Faults(ev) :
                ("get_product" \in F \/ \A k \in 1..Len(Catalog) : Catalog[k].id # product_id) =>
                    LET r == Outcome(ev, F)
                    IN  /\ r.w.carts = carts
                        /\ r.w.items = items
                        /\ ~r.exc =>
                               /\ Committed(ev, r) = STATE_HANDLE_DESCRIPTION
                               /\ r.w.msgs = <<[text |-> "product_gone", kb |-> <<>>]>>

\* Two add events for product 3, whose qty_kg is 0, have left 2 kg of it in
\* the chat's cart.
C20_Witness ==
    /\ last.user_state = STATE_HANDLE_DESCRIPTION
    /\ last.msgs = <<[text |-> "added", kb |-> <<>>]>>
    /\ QtyOf(World, last.chat_id, 3) = 2

\* C16: while events of one chat are handled with their backend requests
\* interleaved, the stored state is one of the handlers' states, the chat
\* has at most one cart and every (cart, product) pair at most one item.
C16_InterleavedHandlersKeepCartConsistent ==
    /\ db[RaceChat] \in States \cup {NoState}
    /\ \A p \in Procs :
           procs[p].pc # "idle" =>
               procs[p].next_state \in {STATE_HANDLE_DESCRIPTION, STATE_HANDLE_CART}
    /\ Cardinality(CartsOf(carts, RaceChat)) <= 1
    /\ \A i \in 1..Len(items) :
           Cardinality(ItemsOf(items, items[i].cart, items[i].product)) <= 1

\* C18: whenever add_or_increment_item has found the one item of a (cart,
\* product) pair, of quantity c, and that item is hard-deleted before the
\* update is sent, the update is answered not-found, a new item is created
\* for the pair with quantity c + qty_to_add, and it is then the only item
\* of the pair.
C18_NotFoundUpdateRecreatesItem ==
    \A i \in 1..Len(items) : \A qty_to_add \in 1..MaxAdd :
        LET cart_id == items[i].cart
            product_id == items[i].product
            f == find_cart_item({}, World, cart_id, product_id)
            c == NumOr(f.val[1].qty_kg, 0)
            d == delete_cart_item({}, f.w, get_cart_item_identifier(f.val[1]))
            r == IncrementOrCreate({}, d.w, cart_id, product_id, qty_to_add, f.val)
            now == ItemsOf(r.w.items, cart_id, product_id)
        IN  Cardinality(ItemsOf(items, cart_id, product_id)) = 1 =>
                /\ f.val = <<items[i]>>
                /\ ~d.exc /\ d.val
                /\ r.w.log = d.w.log \o <<"update_item", "create_item">>
                /\ ~r.exc
                /\ r.val # <<>>
                /\ r.val[1].cart = cart_id
                /\ r.val[1].product = product_id
                /\ r.val[1].qty_kg = <<c + qty_to_add>>
                /\ \A k \in 1..Len(items) : items[k].id # r.val[1].id
                /\ Cardinality(now) = 1
                /\ \A k \in now : r.w.items[k] = r.val[1]

\* A handling of an add event found an item of positive quantity, another
\* handling deleted it, the update was answered not-found and the item was
\* created again: the pair has one item, a new one, of the summed quantity.
C18_Witness ==
    \E p \in Procs :
        /\ procs[p].pc = "commit"
        /\ procs[p].fellback
        /\ procs[p].new_qty > procs[p].qty_val
        /\ \E i \in 1..Len(items) :
            /\ ItemsOf(items, procs[p].cart[1].id, procs[p].product_id) = {i}
            /\ items[i].id # procs[p].found[1].id
            /\ items[i].qty_kg = <<procs[p].new_qty>>

\* The item of its with the id, as a sequence of length <= 1.
ItemById(its, id) == SelectSeq(its, LAMBDA it : it.id = id)

\* An item of after is new or has a greater quantity than in before.
CreatedOrIncremented(before, after) ==
    \E k \in 1..Len(after) :
        LET was == ItemById(before, after[k].id)
        IN  was = <<>> \/ NumOr(after[k].qty_kg, 0) > NumOr(was[1].qty_kg, 0)

\* An item of before is gone or has a smaller quantity in after.
DeletedOrZeroed(before, after) ==
    \E k \in 1..Len(before) :
        LET is == ItemById(after, before[k].id)
        IN  is = <<>> \/ NumOr(is[1].qty_kg, 0) < NumOr(before[k].qty_kg, 0)

\* C21: whatever calls fail, an event creates or increments a cart item
\* only when it is an add button handled in stored state
\* HANDLE_DESCRIPTION, deletes or zeroes one only when it is a remove
\* button handled in stored state HANDLE_CART, and an add or remove button
\* pressed in any other state leaves the carts and the cart items as they
\* were.
C21_CartMutationsGatedByState ==
    \A ev \in Events : \A F \in Faults(ev) :
        LET r == Outcome(ev, F)
            adding == IsAdd(ev) /\ db[ev.chat_id] = STATE_HANDLE_DESCRIPTION
            removing == IsRemove(ev) /\ db[ev.chat_id] = STATE_HANDLE_CART
        IN  /\ CreatedOrIncremented(items, r.w.items) => adding
            /\ DeletedOrZeroed(items, r.w.items) => removing
            /\ ((IsAdd(ev) \/ IsRemove(ev)) /\ ~adding /\ ~removing) =>
                   /\ r.w.carts = carts
                   /\ r.w.items = items
                   /\ r.w.nextItem = nextItem

\* The chat is in HANDLE_CART after a removal, its cart still holds an
\* item, and the add and remove buttons of a product card and of the cart
\* are both pressable: the add button changes nothing here, the remove
\* button takes the item away.
C21_Witness ==
    /\ last.user_state = STATE_HANDLE_CART
    /\ HasMsg(last.msgs, "removed")
    /\ \E ev \in Events : \E gone \in Events :
        /\ db[ev.chat_id] = STATE_HANDLE_CART
        /\ IsAdd(ev) /\ IsRemove(gone)
        /\ \E i \in 1..Len(items) :
               items[i].cart \in OwnCartIds /\ NumOr(items[i].qty_kg, 0) > 0
        /\ Outcome(ev, {}).w.items = items
        /\ DeletedOrZeroed(items, Outcome(gone, {}).w.items)

\* The chat's cart holds an item of quantity > 0.
CartNotEmpty(chat_id) ==
    \E i \in 1..Len(items) :
        /\ \E c \in CartsOf(carts, chat_id) : carts[c].id = items[i].cart
        /\ NumOr(items[i].qty_kg, 0) > 0

\* C22: an event moves a chat into WAITING_EMAIL only when it is the pay
\* button pressed in HANDLE_CART while the chat's cart holds an item of
\* quantity > 0, and a chat in WAITING_EMAIL has such an item.
C22_WaitingEmailOnlyByPayWithItems ==
    /\ \A c \in Chats : db[c] = STATE_WAITING_EMAIL => CartNotEmpty(c)
    /\ \A m \in screen : \A b \in 1..Len(m.kb) :
        LET ev == [chat_id |-> RaceChat, is_message |-> FALSE, data |-> m.kb[b]]
            r == Outcome(ev, {})
        IN  (db[RaceChat] # STATE_WAITING_EMAIL
                 /\ Committed(ev, r) = STATE_WAITING_EMAIL) =>
                /\ ev.data = PPay
                /\ db[RaceChat] = STATE_HANDLE_CART
                /\ CartNotEmpty(RaceChat)
    /\ \A text \in ChatTexts :
        LET ev == [chat_id |-> RaceChat, is_message |-> TRUE, data |-> text]
        IN  db[RaceChat] # STATE_WAITING_EMAIL =>
                Committed(ev, Outcome(ev, {})) # STATE_WAITING_EMAIL

\* A value in the session store that is none of the five labels.
StaleLabel == "HANDLE_PAYMENT"

\* C23: the value stored for a chat is one of the five labels once an event
\* of the chat has been handled, every event stores one of the five labels
\* whatever calls fail, and an event of a chat whose stored value is no
\* label is handled as the Start handler handles it.
C23_StoredStateIsALabel ==
    /\ \A c \in Chats : db[c] \in States \/ (db[c] = NoState /\ last.chat_id # c)
    /\ \A ev \in Events : \A F \in Faults(ev) :
           Committed(ev, Outcome(ev, F)) \in States
    /\ \A ev \in Events :
           LET h == Handled([state |-> StaleLabel, w |-> World], ev)
               s == start({}, World, ev)
           IN  /\ StaleLabel \notin States
               /\ h.state = Committed(ev, s)
               /\ h.w = s.w

\* The chat has reached WAITING_EMAIL, the last of the five labels: the
\* stored value is a label, and a text of a chat whose stored value is no
\* label gets the menu.
C23_Witness ==
    /\ \E c \in Chats :
        /\ db[c] = STATE_WAITING_EMAIL
        /\ last.chat_id = c
        /\ Handled([state |-> StaleLabel, w |-> World],
                   [chat_id |-> c, is_message |-> TRUE, data |-> TextEmail]).state
               = STATE_HANDLE_MENU

RECURSIVE SumQty(_, _)
SumQty(its, S) ==
    IF S = {} THEN 0
    ELSE LET i == CHOOSE j \in S : TRUE
         IN  NumOr(its[i].qty_kg, 0) + SumQty(its, S \ {i})

\* C24: when every add event begun has told the user "added", the
\* quantities of the items of each (cart, product) pair sum to the
\* quantities added to the pair since an item of it was last deleted or
\* zeroed, however the requests of the events interleaved.
C24_NoIncrementLost ==
    (\A p \in Procs : procs[p].pc = "idle") =>
        \A pair \in Pairs :
            SumQty(items, ItemsOf(items, pair[1], pair[2])) = added[pair]

====
